---------------------------- MODULE Spec2Model ----------------------------
(***************************************************************************)
(* A model of the image purifier: colour-distance masking, border-median   *)
(* background detection, edge refinement, watermark detection and          *)
(* inpainting masks, the bottom crop, the AI fallback chain, process_image *)
(* and the batch and command-line drivers.                                 *)
(*                                                                         *)
(* Images are grids of 8-bit pixels in OpenCV's BGR channel order, indexed *)
(* <<y, x>> from 0 as numpy does.                                          *)
(***************************************************************************)
EXTENDS Integers, Sequences, FiniteSets, TLC

VARIABLES
    image,        \* the image buffer handed to BackgroundRemover
    tolerance,    \* BackgroundRemover.tolerance
    maskCall,     \* arguments of the last remove_color_background call, or NoCall
    bgra,         \* what that call returned, or NoImage
    detected,     \* what _detect_background_color returned, or NoColor
    repass,       \* what a second pass over bgra returned, or NoImage
    wmImage,      \* the image buffer handed to WatermarkRemover
    wmCall,       \* the last WatermarkRemover call and what it did, or NoCall
    wmResult,     \* the image that call returned, or NoImage
    env,          \* the process environment: installed packages, token, model health
    aiCall,       \* the last remove_with_ai call and its outcome, or NoCall
    aiCalls,      \* remove_with_ai calls made so far in this process
    modelLoads,   \* times the RMBG-2.0 model has been loaded in this process
    listing,      \* the input directory: whether it exists and the files in it
    run,          \* the process_directory call in progress: position, counters, outputs
    mainCall,     \* the command line main was run with and how it ended, or NoCall
    imageCall     \* a direct process_image call and how it ended, or NoCall

colorVars == <<image, tolerance, maskCall, bgra, detected, repass>>
wmVars == <<wmImage, wmCall, wmResult>>
aiVars == <<env, aiCall, aiCalls, modelLoads>>

driverVars == <<listing, run, mainCall, imageCall>>

vars == <<colorVars, wmVars, aiVars, driverVars>>

NoCall == [kind |-> "none"]
NoImage == [kind |-> "none"]
NoColor == <<>>
None == "None"

\* an exception of the given type left the call
Raised(type) == [kind |-> "raised", type |-> type]

-----------------------------------------------------------------------------
(* Bounds of the colour-masking and detection scenarios.                   *)

\* largest width and height of an image handed to remove_color_background
MaxMaskDim == 2
\* most pixels of such an image that differ from its base colour
MaxMaskForeign == 1
\* largest width and height of an image handed to _detect_background_color
MaxDetectDim == 3
\* most pixels of such an image that differ from its base colour
MaxDetectForeign == 3
\* largest width and height of an image handed to inpaint_watermark
MaxInpaintW == 11
MaxInpaintH == 1
\* most regions in one inpaint_watermark call
MaxRegions == 2
\* largest side of an image handed to refine_edges, and most pixels in it
\* whose opacity differs from the rest
MaxRefineDim == 2
MaxRefineForeign == 2
\* most files in the input directory
MaxFiles == 2
\* most remove_with_ai calls in one process
MaxAICalls == 2
\* largest height of an image handed to remove_bottom_region and smart_remove
\* (the height 1000 of the documented example is added to the range)
MaxCropHeight == 100

-----------------------------------------------------------------------------
(* config.py                                                               *)

\* BACKGROUND_COLORS, RGB tuples keyed by lower-case name
BACKGROUND_COLORS ==
    [white |-> <<255, 255, 255>>,
     green |-> <<0, 255, 0>>,
     blue  |-> <<0, 0, 255>>,
     black |-> <<0, 0, 0>>]

COLOR_TOLERANCE == 30

-----------------------------------------------------------------------------
(* numpy / OpenCV primitives, as the library computes them                 *)

\* arithmetic on dtype uint8 wraps modulo 256
U8(n) == n % 256

\* np.clip(a, lo, hi) on one element
Clip(v, lo, hi) == IF v < lo THEN lo ELSE IF v > hi THEN hi ELSE v

\* a[::-1] on a 3-element array
Reversed(c) == [i \in 1 .. Len(c) |-> c[Len(c) + 1 - i]]

\* str.lower() on the colour names and file suffixes the callers pass
Lower(s) == CASE s = "WHITE" -> "white"
              [] s = "Blue"  -> "blue"
              [] s = ".JPG"  -> ".jpg"
              [] OTHER       -> s

Positions(img) == (0 .. img.h - 1) \X (0 .. img.w - 1)

\* cv2.cvtColor(image, cv2.COLOR_GRAY2BGR): the grey value in every channel
GrayToBGR(img) ==
    [img EXCEPT !.ch = 3, !.px = [p \in Positions(img) |-> <<img.px[p][1], img.px[p][1], img.px[p][1]>>]]

\* cv2.inRange on one pixel: 255 when every channel lies in [lower, upper]
InRange(pixel, lower, upper) ==
    IF \A i \in 1 .. Len(pixel) : lower[i] <= pixel[i] /\ pixel[i] <= upper[i]
    THEN 255 ELSE 0

\* cv2.bitwise_not on a uint8
BitwiseNot(v) == 255 - v

-----------------------------------------------------------------------------
(* background_remover.py                                                   *)

\* the k-th smallest (k from 1) of the values s[1..n], as np.sort orders them
KthSmallest(s, k) ==
    CHOOSE v \in {s[i] : i \in 1 .. Len(s)} :
        /\ Cardinality({i \in 1 .. Len(s) : s[i] < v}) < k
        /\ Cardinality({i \in 1 .. Len(s) : s[i] <= v}) >= k

\* np.median(...).astype(np.uint8) of one channel: the middle sample, or the
\* mean of the two middle samples with its fraction cut off by the cast
MedianU8(s) ==
    LET n == Len(s)
    IN  IF n % 2 = 1 THEN KthSmallest(s, (n + 1) \div 2)
        ELSE (KthSmallest(s, n \div 2) + KthSmallest(s, n \div 2 + 1)) \div 2

\* image[y, :] and image[:, x] as lists of pixels
Row(img, y) == [i \in 1 .. img.w |-> img.px[<<y, i - 1>>]]
Col(img, x) == [i \in 1 .. img.h |-> img.px[<<i - 1, x>>]]

\* edge_samples after the four extend calls: top, bottom, left, right
EdgeSamples(img) ==
    Row(img, 0) \o Row(img, img.h - 1) \o Col(img, 0) \o Col(img, img.w - 1)

\* BackgroundRemover._detect_background_color
DetectBackgroundColor(img) ==
    LET edge_samples == EdgeSamples(img)
    IN  [c \in 1 .. img.ch |-> MedianU8([i \in 1 .. Len(edge_samples) |-> edge_samples[i][c]])]

\* target_color of remove_color_background
TargetColor(img, color_name, custom_color) ==
    IF custom_color # NoColor THEN custom_color
    ELSE IF color_name # None /\ Lower(color_name) \in DOMAIN BACKGROUND_COLORS
         THEN BACKGROUND_COLORS[Lower(color_name)]
         ELSE DetectBackgroundColor(img)

\* lower_bound and upper_bound: the uint8 target minus/plus the tolerance is
\* computed in uint8 and wraps before np.clip sees it
LowerBound(target_bgr, tol) == [c \in 1 .. Len(target_bgr) |-> Clip(U8(target_bgr[c] - tol), 0, 255)]
UpperBound(target_bgr, tol) == [c \in 1 .. Len(target_bgr) |-> Clip(U8(target_bgr[c] + tol), 0, 255)]

\* BackgroundRemover.remove_color_background. On an image that already has
\* an alpha channel cv2.inRange rejects three-element bounds, and with the
\* four-element bounds of an auto-detected target "b, g, r = cv2.split(image)"
\* cannot unpack four planes.
RemoveColorBackground(image0, color_name, custom_color, tol) ==
    LET img == IF image0.ch = 1 THEN GrayToBGR(image0) ELSE image0
        target_color == TargetColor(img, color_name, custom_color)
        target_color_bgr == Reversed(target_color)
        lower_bound == LowerBound(target_color_bgr, tol)
        upper_bound == UpperBound(target_color_bgr, tol)
        mask == [p \in Positions(img) |-> InRange(img.px[p], lower_bound, upper_bound)]
        mask_inv == [p \in Positions(img) |-> BitwiseNot(mask[p])]
    IN  IF Len(lower_bound) # img.ch THEN Raised("cv2.error")
        ELSE IF img.ch # 3 THEN Raised("ValueError")
        ELSE [kind |-> "image", h |-> img.h, w |-> img.w, ch |-> 4,
              px |-> [p \in Positions(img) |-> img.px[p] \o <<mask_inv[p]>>]]

-----------------------------------------------------------------------------
(* BackgroundRemover.refine_edges                                          *)

\* cv2.BORDER_REFLECT_101, the default border of GaussianBlur: the index of
\* the sample used for position i on an axis of length n
Reflect101(i, n) ==
    IF n = 1 THEN 0
    ELSE IF i < 0 THEN -i
    ELSE IF i >= n THEN 2 * n - 2 - i
    ELSE i

\* the 3-tap Gaussian kernel of GaussianBlur(alpha, (3, 3), 0), times 4
GaussTap(d) == IF d = 0 THEN 2 ELSE 1

\* 16 times the blurred opacity at p, before rounding
BlurSum16(img, p) ==
    LET A(dy, dx) == GaussTap(dy) * GaussTap(dx)
                        * img.px[<<Reflect101(p[1] + dy, img.h), Reflect101(p[2] + dx, img.w)>>][4]
    IN  A(-1, -1) + A(-1, 0) + A(-1, 1) + A(0, -1) + A(0, 0) + A(0, 1)
            + A(1, -1) + A(1, 0) + A(1, 1)

\* the blurred value stored back as uint8: to nearest, a half going up in
\* the fixed-point filter and to the even neighbour in the float filter
RoundedBlur(sum16, rounding) ==
    IF sum16 % 16 = 8 /\ rounding = "half_even"
    THEN (IF (sum16 \div 16) % 2 = 0 THEN sum16 \div 16 ELSE sum16 \div 16 + 1)
    ELSE (sum16 + 8) \div 16

\* cv2.threshold(alpha_blurred, 128, 255, cv2.THRESH_BINARY) with >= for >
ThresholdBinary_AtLeast(v) == IF v >= 128 THEN 255 ELSE 0

\* cv2.threshold(alpha_blurred, 128, 255, cv2.THRESH_BINARY) on one value
ThresholdBinary(v) == IF v > 128 THEN 255 ELSE 0

\* BackgroundRemover.refine_edges on a BGRA image
RefineEdges(image_bgra, rounding) ==
    [image_bgra EXCEPT !.px =
        [p \in Positions(image_bgra) |->
            <<image_bgra.px[p][1], image_bgra.px[p][2], image_bgra.px[p][3],
              ThresholdBinary(RoundedBlur(BlurSum16(image_bgra, p), rounding))>>]]

-----------------------------------------------------------------------------
(* IEEE-754 binary64 arithmetic, as CPython computes height * (1 - ratio). *)
(* A non-negative number is a sequence of 16-bit limbs, least significant  *)
(* first, scaled by 2^-64: 1.0 is four zero limbs followed by a one.       *)

\* bits per limb and the limb base
LimbBits == 16
LimbBase == 65536
\* limbs of fraction in the fixed-point carrier (64 fraction bits)
FracLimbs == 4
\* significand width of a binary64
Mantissa == 53

RECURSIVE Zeros(_)
Zeros(n) == IF n <= 0 THEN <<>> ELSE <<0>> \o Zeros(n - 1)

RECURSIVE LimbsOf(_)
LimbsOf(n) == IF n = 0 THEN <<>> ELSE <<n % LimbBase>> \o LimbsOf(n \div LimbBase)

\* bits of a natural below 2^16
SmallBitLen(n) == IF n = 0 THEN 0 ELSE CHOOSE k \in 1 .. LimbBits : 2^(k - 1) <= n /\ n < 2^k

\* number of bits up to the highest set one, 0 for zero
BitLen(x) ==
    IF \A i \in 1 .. Len(x) : x[i] = 0 THEN 0
    ELSE LET top == CHOOSE i \in 1 .. Len(x) : x[i] # 0 /\ \A j \in i + 1 .. Len(x) : x[j] = 0
         IN  LimbBits * (top - 1) + SmallBitLen(x[top])

\* bit j (from 0) of x
BitAt(x, j) ==
    IF j \div LimbBits + 1 > Len(x) THEN 0
    ELSE (x[j \div LimbBits + 1] \div 2^(j % LimbBits)) % 2

\* some bit below bit j of x is set
AnyBelow(x, j) ==
    \/ \E i \in 1 .. j \div LimbBits : i <= Len(x) /\ x[i] # 0
    \/ j \div LimbBits + 1 <= Len(x) /\ x[j \div LimbBits + 1] % 2^(j % LimbBits) # 0

\* x with the bits below bit j cleared
ClearBelow(x, j) ==
    [i \in 1 .. Len(x) |->
        IF i < j \div LimbBits + 1 THEN 0
        ELSE IF i = j \div LimbBits + 1 THEN x[i] - (x[i] % 2^(j % LimbBits))
        ELSE x[i]]

\* x * k for a natural k below 2^15
RECURSIVE MulCarry(_, _, _, _)
MulCarry(x, k, i, carry) ==
    IF i > Len(x)
    THEN LimbsOf(carry)
    ELSE <<(x[i] * k + carry) % LimbBase>>
            \o MulCarry(x, k, i + 1, (x[i] * k + carry) \div LimbBase)

MulSmall(x, k) == MulCarry(x, k, 1, 0)

\* a - b for a >= b
RECURSIVE SubBorrow(_, _, _, _)
SubBorrow(a, b, i, borrow) ==
    IF i > Len(a) THEN <<>>
    ELSE LET bi == IF i <= Len(b) THEN b[i] ELSE 0
         IN  <<(a[i] - bi - borrow) % LimbBase>>
                \o SubBorrow(a, b, i + 1, IF a[i] - bi - borrow < 0 THEN 1 ELSE 0)

Sub(a, b) == SubBorrow(a, b, 1, 0)

\* x + addend * LimbBase^(i-1), for limb index i
RECURSIVE AddAt(_, _, _)
AddAt(x, i, addend) ==
    IF addend = 0 THEN x
    ELSE IF i > Len(x) THEN AddAt(Append(x, 0), i, addend)
    ELSE AddAt([x EXCEPT ![i] = (x[i] + addend) % LimbBase], i + 1,
               (x[i] + addend) \div LimbBase)

\* long division of x (from limb i down) by a small natural d: the remainder
\* followed by the quotient's limbs
RECURSIVE DivStep(_, _, _, _)
DivStep(x, d, i, rem) ==
    IF i = 0 THEN <<rem>>
    ELSE Append(DivStep(x, d, i - 1, (rem * LimbBase + x[i]) % d),
                (rem * LimbBase + x[i]) \div d)

\* round to nearest, ties to even, to Mantissa significant bits; sticky says
\* that the exact value lies strictly above x
RoundNearestEven(x, sticky) ==
    LET s == BitLen(x) - Mantissa
    IN  IF s <= 0 THEN x
        ELSE LET up == /\ BitAt(x, s - 1) = 1
                       /\ (sticky \/ AnyBelow(x, s - 1) \/ BitAt(x, s) = 1)
                 kept == ClearBelow(x, s)
             IN  IF up THEN AddAt(kept, s \div LimbBits + 1, 2^(s % LimbBits)) ELSE kept

\* the float literal 0.pp: the binary64 nearest to percent / 100
FloatOfPercent(percent) ==
    LET num == Zeros(FracLimbs) \o LimbsOf(percent)
        rq == DivStep(num, 100, Len(num), 0)
    IN  RoundNearestEven(Tail(rq), rq[1] # 0)

FloatOne == Zeros(FracLimbs) \o <<1>>

\* 1 - height_ratio in binary64
OneMinus(ratio) == RoundNearestEven(Sub(FloatOne, ratio), FALSE)

\* height * x in binary64 (the int is converted exactly)
FloatMulInt(height, x) == RoundNearestEven(MulSmall(x, height), FALSE)

\* int(x): truncation of a non-negative float below 2^31
IntOfFloat(x) ==
    (IF Len(x) > FracLimbs THEN x[FracLimbs + 1] ELSE 0)
        + (IF Len(x) > FracLimbs + 1 THEN LimbBase * x[FracLimbs + 2] ELSE 0)

\* crop_height of remove_bottom_region
CropHeight(height, ratio) == IntOfFloat(FloatMulInt(height, OneMinus(ratio)))

-----------------------------------------------------------------------------
(* watermark_remover.py                                                    *)
(* An image here is [h, w, painted]: pixel <<y, x>> is the input's pixel   *)
(* <<y, x>> unless it lies in one of the painted slices [y0, y1) x [x0, x1)*)
(* where cv2.inpaint has synthesised it.                                   *)

\* padding of inpaint_watermark
PADDING == 5

Max(a, b) == IF a > b THEN a ELSE b
Min(a, b) == IF a < b THEN a ELSE b

\* PaddedRect without the clamp of w and h to the image
PaddedRect_NoClamp(region, width, height) ==
    [x |-> Max(0, region.x - PADDING), y |-> Max(0, region.y - PADDING),
     w |-> region.w + 2 * PADDING, h |-> region.h + 2 * PADDING]

\* the x, y, w, h that the loop body computes for one region
PaddedRect(region, width, height) ==
    LET x == Max(0, region.x - PADDING)
        y == Max(0, region.y - PADDING)
    IN  [x |-> x, y |-> y,
         w |-> Min(width - x, region.w + 2 * PADDING),
         h |-> Min(height - y, region.h + 2 * PADDING)]

\* a slice bound as numpy resolves it on an axis of length n
NormIndex(i, n) ==
    IF i < 0 THEN Max(0, i + n) ELSE Min(i, n)

\* the slice mask[y:y+h, x:x+w] as numpy resolves it
SliceOf(rect, width, height) ==
    [y0 |-> NormIndex(rect.y, height), y1 |-> NormIndex(rect.y + rect.h, height),
     x0 |-> NormIndex(rect.x, width),  x1 |-> NormIndex(rect.x + rect.w, width)]

IsEmptySlice(sl) == sl.y0 >= sl.y1 \/ sl.x0 >= sl.x1

\* the cells of a slice
SliceCells(sl) == (sl.y0 .. sl.y1 - 1) \X (sl.x0 .. sl.x1 - 1)

\* the slices set to 255 in the mask after the loop
MaskSlices(rects, width, height) ==
    {sl \in {SliceOf(rects[i], width, height) : i \in 1 .. Len(rects)} : ~IsEmptySlice(sl)}

\* the mask cells that are 255
MaskCells(slices) == UNION {SliceCells(sl) : sl \in slices}

\* inpaint_watermark without its early return for an empty list
InpaintWatermark_NoEarlyReturn(img, regions) ==
    LET rects == [i \in 1 .. Len(regions) |-> PaddedRect(regions[i], img.w, img.h)]
    IN  [result |-> [img EXCEPT !.painted = @ \cup MaskSlices(rects, img.w, img.h)],
         inpainted |-> TRUE,
         rects |-> rects]

\* WatermarkRemover.inpaint_watermark: what is returned, whether cv2.inpaint
\* ran, and the rectangles painted into the mask
InpaintWatermark(img, regions) ==
    IF regions = <<>>
    THEN [result |-> img, inpainted |-> FALSE, rects |-> <<>>]
    ELSE LET rects == [i \in 1 .. Len(regions) |-> PaddedRect(regions[i], img.w, img.h)]
         IN  [result |-> [img EXCEPT !.painted = @ \cup MaskSlices(rects, img.w, img.h)],
              inpainted |-> TRUE,
              rects |-> rects]

\* a slice cut to the first rows of an image
ClipRows(sl, rows) == [sl EXCEPT !.y0 = Min(@, rows), !.y1 = Min(@, rows)]

\* image[:rows, :]
TopRows(img, rows) ==
    [img EXCEPT !.h = NormIndex(rows, img.h),
                !.painted = {c \in {ClipRows(sl, NormIndex(rows, img.h)) : sl \in @} :
                                ~IsEmptySlice(c)}]

\* WatermarkRemover.remove_bottom_region
RemoveBottomRegion(img, height_ratio) ==
    TopRows(img, CropHeight(img.h, height_ratio))

\* int(n * 0.pp), as in regions_to_check
IntOfScaled(n, percent) == IntOfFloat(FloatMulInt(n, FloatOfPercent(percent)))

\* regions_to_check of detect_watermark_region: x1, y1, x2, y2 per location
RegionsToCheck(img) ==
    << [location |-> "bottom_right", x1 |-> IntOfScaled(img.w, 70), y1 |-> IntOfScaled(img.h, 85),
        x2 |-> img.w, y2 |-> img.h],
       [location |-> "bottom_left", x1 |-> 0, y1 |-> IntOfScaled(img.h, 85),
        x2 |-> IntOfScaled(img.w, 30), y2 |-> img.h],
       [location |-> "bottom", x1 |-> IntOfScaled(img.w, 30), y1 |-> IntOfScaled(img.h, 90),
        x2 |-> IntOfScaled(img.w, 70), y2 |-> img.h] >>

\* shape of roi = gray[y1:y2, x1:x2]
RoiW(img, band) == Max(0, NormIndex(band.x2, img.w) - NormIndex(band.x1, img.w))
RoiH(img, band) == Max(0, NormIndex(band.y2, img.h) - NormIndex(band.y1, img.h))

\* the text-like filter without its minimum height
TextLike_NoMinHeight(box) == box.w > 20 /\ box.w > box.h * 2

\* the text-like filter on a bounding box
TextLike(box) == box.w > 20 /\ box.h > 5 /\ box.w > box.h * 2

\* the boxes of one band that pass the filter, in full-image coordinates
RECURSIVE KeptBoxes(_, _)
KeptBoxes(band, boxes) ==
    IF boxes = <<>> THEN <<>>
    ELSE (IF TextLike(Head(boxes))
          THEN << [x |-> band.x1 + Head(boxes).x, y |-> band.y1 + Head(boxes).y,
                   w |-> Head(boxes).w, h |-> Head(boxes).h] >>
          ELSE <<>>) \o KeptBoxes(band, Tail(boxes))

\* WatermarkRemover.detect_watermark_region. cv[i] is what OpenCV yields on
\* band i: the bounding boxes of the contours found, or a cv2.error.
DetectWatermarkRegion(img, cv) ==
    LET bands == RegionsToCheck(img)
    IN  IF \E i \in 1 .. 3 : cv[i].error
        THEN [error |-> TRUE, regions |-> <<>>]
        ELSE [error |-> FALSE,
              regions |-> KeptBoxes(bands[1], cv[1].boxes) \o KeptBoxes(bands[2], cv[2].boxes)
                            \o KeptBoxes(bands[3], cv[3].boxes)]

\* the ratio smart_remove crops with, in percent
AGGRESSIVE_PERCENT == 12
\* the default height_ratio of remove_bottom_region, in percent
DEFAULT_PERCENT == 15

CvError == [kind |-> "cv2.error"]

\* WatermarkRemover.smart_remove
SmartRemove(img, aggressive, cv) ==
    LET found == DetectWatermarkRegion(img, cv)
        result == IF found.regions # <<>>
                  THEN InpaintWatermark(img, found.regions).result
                  ELSE img
    IN  IF found.error THEN CvError
        ELSE IF aggressive
             THEN RemoveBottomRegion(result, FloatOfPercent(AGGRESSIVE_PERCENT))
             ELSE result

-----------------------------------------------------------------------------
(* rmbg_remover.py and BackgroundRemover.remove_with_ai                    *)
(* An outcome is [kind |-> "image", source, ...] for a returned image or   *)
(* [kind |-> "raised", type] for an exception that leaves the call.        *)

\* "from rmbg_remover import RMBGRemover": the module imports torch and
\* torchvision at its top, so it raises ImportError when either is missing
ImportRmbgRemover(e) == e.torch /\ e.torchvision

\* RMBGRemover._load_model on a fresh RMBGRemover (self.model is None): every
\* failure inside its try, the ImportError of transformers included, is
\* re-raised as a plain Exception
LoadModel(e) ==
    IF ~e.transformers THEN Raised("Exception")
    ELSE IF e.token # "valid" THEN Raised("Exception")
    ELSE [kind |-> "loaded"]

\* RMBGRemover().remove_background(image)
RmbgRemoveBackground(e, img) ==
    IF LoadModel(e).kind = "raised" THEN LoadModel(e)
    ELSE IF ~e.inference_ok THEN Raised("RuntimeError")
    ELSE [kind |-> "image", source |-> "rmbg", of |-> img]

\* the rembg block with a failure of rembg itself also sent to colour masking
RembgBlock_CatchAll(e, img, tol) ==
    IF ~e.rembg \/ ~e.rembg_ok
    THEN [outcome |-> [kind |-> "image", source |-> "color",
                       of |-> RemoveColorBackground(img, None, NoColor, tol)],
          log |-> <<"Warning: rembg not installed. Using color-based removal instead.">>,
          attempts |-> <<"rembg", "color">>]
    ELSE [outcome |-> [kind |-> "image", source |-> "rembg", of |-> img],
          log |-> <<>>, attempts |-> <<"rembg">>]

\* the rembg block of remove_with_ai: ImportError falls back to colour
\* masking, any other failure of rembg leaves the call
RembgBlock(e, img, tol) ==
    IF ~e.rembg
    THEN [outcome |-> [kind |-> "image", source |-> "color",
                       of |-> RemoveColorBackground(img, None, NoColor, tol)],
          log |-> <<"Warning: rembg not installed. Using color-based removal instead.">>,
          attempts |-> <<"rembg", "color">>]
    ELSE IF ~e.rembg_ok
    THEN [outcome |-> Raised("RuntimeError"), log |-> <<>>, attempts |-> <<"rembg">>]
    ELSE [outcome |-> [kind |-> "image", source |-> "rembg", of |-> img],
          log |-> <<>>, attempts |-> <<"rembg">>]

\* BackgroundRemover.remove_with_ai: the outcome, the messages printed, the
\* strategies attempted in order, and the model loads it caused
RemoveWithAI(e, img, tol, method) ==
    IF method = "rmbg" /\ ImportRmbgRemover(e)
    THEN [outcome |-> RmbgRemoveBackground(e, img), log |-> <<>>, attempts |-> <<"rmbg">>,
          loads |-> IF LoadModel(e).kind = "loaded" THEN 1 ELSE 0]
    ELSE LET fell == IF method = "rmbg"
                     THEN [log |-> <<"Warning: RMBG-2.0 dependencies not installed",
                                     "Falling back to rembg...">>,
                           attempts |-> <<"rmbg">>]
                     ELSE [log |-> <<>>, attempts |-> <<>>]
             r == RembgBlock(e, img, tol)
         IN  [outcome |-> r.outcome, log |-> fell.log \o r.log,
              attempts |-> fell.attempts \o r.attempts, loads |-> 0]

-----------------------------------------------------------------------------
(* image_processor.py and main.py                                          *)
(* A file is [dir, stem, suffix, fault]: dir is "" for the input directory *)
(* itself or the name of a subdirectory, and fault is what goes wrong when *)
(* the file is processed.  An output path is [dir, stem, suffix].          *)

IMAGE_EXTENSIONS == {".jpg", ".jpeg", ".png", ".bmp", ".tiff", ".webp"}

\* the keyword parameters of process_image and of process_directory
PROCESS_IMAGE_PARAMS ==
    {"remove_watermark", "remove_background", "bg_color", "aggressive"}
PROCESS_DIRECTORY_PARAMS ==
    {"output_dir", "remove_watermark", "remove_background", "bg_color", "aggressive",
     "recursive"}

\* Python binds a call's keyword arguments to the callee's parameters and
\* raises TypeError for a keyword the callee does not have
Accepts(params, kwargs) == DOMAIN kwargs \subseteq params

\* Path.with_suffix
WithSuffix(path, suffix) == [path EXCEPT !.suffix = suffix]

\* the extension rewrite both callers apply before process_image
PngIfBackground(path, remove_background) ==
    IF remove_background /\ Lower(path.suffix) # ".png"
    THEN WithSuffix(path, ".png")
    ELSE path

\* ImageProcessor.process_image: what it returned, the calls it made in
\* order, and whether the output file was written
ProcessImage(input_path, output_path, remove_watermark, remove_background, bg_color, aggressive) ==
    LET fault == input_path.fault
        watermark == IF remove_watermark THEN <<"smart_remove">> ELSE <<>>
        background == IF remove_background
                      THEN <<"remove_color_background", "refine_edges">>
                      ELSE <<>>
        Result(returned, stages, written) ==
            [input |-> input_path, output |-> output_path, returned |-> returned,
             stages |-> stages, written |-> written]
    IN  IF fault = "undecodable"
        THEN Result(FALSE, <<"imread">>, FALSE)
        ELSE IF remove_watermark /\ fault = "watermark_raises"
        THEN Result(FALSE, <<"imread", "smart_remove">>, FALSE)
        ELSE IF remove_background /\ fault = "background_raises"
        THEN Result(FALSE, <<"imread">> \o watermark \o <<"remove_color_background">>, FALSE)
        ELSE IF fault = "write_raises"
        THEN Result(FALSE, <<"imread">> \o watermark \o background \o <<"imwrite">>, FALSE)
        ELSE Result(TRUE, <<"imread">> \o watermark \o background \o <<"imwrite">>,
                    fault # "write_refused")

NoRun == [state |-> "idle"]

\* input_path.glob('*') or rglob('*') filtered by suffix
ImageFiles(files, recursive) ==
    SelectSeq(files, LAMBDA f : Lower(f.suffix) \in IMAGE_EXTENSIONS
                                    /\ (recursive \/ f.dir = ""))

\* process_directory up to its loop: the early returns and the file list
StartDirectory(fs, o) ==
    LET image_files == ImageFiles(fs.files, o.recursive)
        Begin(state, files) ==
            [state |-> state, opts |-> o, files |-> files, cursor |-> 1, successful |-> 0,
             failed |-> 0, attempted |-> <<>>, outputs |-> {}]
    IN  IF ~fs.exists THEN Begin("returned", <<>>)
        ELSE IF image_files = <<>> THEN Begin("returned", <<>>)
        ELSE Begin("running", image_files)

\* one iteration of the loop of process_directory
LoopBody(r, image_file) ==
    LET o == r.opts
        output_file0 == [dir |-> IF o.recursive THEN image_file.dir ELSE "",
                         stem |-> image_file.stem, suffix |-> image_file.suffix]
        output_file == PngIfBackground(output_file0, o.remove_background)
        p == ProcessImage(image_file, output_file, o.remove_watermark, o.remove_background,
                          o.bg_color, o.aggressive)
    IN  IF o.recursive /\ image_file.dir # "" /\ image_file.fault = "mkdir_raises"
        THEN [r EXCEPT !.state = "raised"]
        ELSE [r EXCEPT !.cursor = @ + 1,
                       !.successful = IF p.returned THEN @ + 1 ELSE @,
                       !.failed = IF p.returned THEN @ ELSE @ + 1,
                       !.attempted = Append(@, p),
                       !.outputs = IF p.written THEN @ \cup {output_file} ELSE @]

\* "return successful, failed"
ReturnDirectory(r) == [r EXCEPT !.state = "returned"]

RECURSIVE RunLoop(_)
RunLoop(r) ==
    IF r.state # "running" THEN r
    ELSE IF r.cursor > Len(r.files) THEN ReturnDirectory(r)
    ELSE RunLoop(LoopBody(r, r.files[r.cursor]))

\* ImageProcessor.process_directory, from call to return
ProcessDirectory(fs, o) == RunLoop(StartDirectory(fs, o))

VALID_BG_COLORS == {"white", "green", "blue", "black", "auto"}

Exit(status, images) == [kind |-> "exit", status |-> status, images |-> images]

\* the checks of main that end the process before anything is processed
PassesValidation(a) ==
    /\ a.input # "missing"
    /\ a.watermark \/ a.background # None
    /\ a.background # None => Lower(a.background) \in VALID_BG_COLORS

\* main(): how the process ends and which images were processed how
Main(a, fs) ==
    LET bg_color == IF a.background = None \/ Lower(a.background) = "auto"
                    THEN None
                    ELSE Lower(a.background)
        common == [remove_watermark |-> a.watermark,
                   remove_background |-> a.background # None,
                   bg_color |-> bg_color, aggressive |-> a.aggressive]
        added == [use_ai |-> a.use_ai, ai_method |-> a.ai_model]
    IN  IF ~PassesValidation(a) THEN Exit(1, <<>>)
        ELSE IF a.input = "file"
        THEN LET input_path == fs.files[1]
                 output_path0 == IF a.output # None
                                 THEN a.output
                                 ELSE [dir |-> "", stem |-> input_path.stem,
                                       suffix |-> input_path.suffix]
                 output_path == PngIfBackground(output_path0, a.background # None)
                 kwargs == [k \in DOMAIN common \cup DOMAIN added |->
                               IF k \in DOMAIN common THEN common[k] ELSE added[k]]
                 p == ProcessImage(input_path, output_path, kwargs.remove_watermark,
                                   kwargs.remove_background, kwargs.bg_color,
                                   kwargs.aggressive)
             IN  IF ~Accepts(PROCESS_IMAGE_PARAMS, kwargs) THEN Raised("TypeError")
                 ELSE Exit(IF p.returned THEN 0 ELSE 1, <<p>>)
        ELSE LET extra == [output_dir |-> a.output, recursive |-> a.recursive]
                 names == DOMAIN common \cup DOMAIN extra \cup DOMAIN added
                 kwargs == [k \in names |->
                               IF k \in DOMAIN common THEN common[k]
                               ELSE IF k \in DOMAIN extra THEN extra[k] ELSE added[k]]
                 r == ProcessDirectory(fs, [k \in DOMAIN common \cup {"recursive"} |->
                                               kwargs[k]])
             IN  IF ~Accepts(PROCESS_DIRECTORY_PARAMS, kwargs) THEN Raised("TypeError")
                 ELSE IF r.state = "raised" THEN Raised("OSError")
                 ELSE Exit(IF r.failed > 0 THEN 1 ELSE 0, r.attempted)

-----------------------------------------------------------------------------
(* Inputs of the colour scenarios                                          *)

\* BGR pixels the input images are painted with
White == <<255, 255, 255>>
MidGray == <<120, 130, 140>>
PureBlue == <<255, 0, 0>>
Black == <<0, 0, 0>>
Palette == {White, MidGray, PureBlue, Black}

\* an h x w BGR image of colour base with the pixels at foreign painted other
MkImage(h, w, base, foreign, other) ==
    [kind |-> "image", h |-> h, w |-> w, ch |-> 3,
     px |-> [p \in (0 .. h - 1) \X (0 .. w - 1) |-> IF p \in foreign THEN other ELSE base]]

\* every image of at most maxDim x maxDim with at most maxForeign pixels of a
\* second colour
Images(maxDim, maxForeign) ==
    UNION { UNION { { MkImage(h, w, base, foreign, other) :
                        foreign \in {f \in SUBSET ((0 .. h - 1) \X (0 .. w - 1)) :
                                        Cardinality(f) <= maxForeign} } :
                      base \in Palette, other \in Palette } :
            h \in 1 .. maxDim, w \in 1 .. maxDim }

\* single-channel (grayscale) inputs
GrayImages ==
    { [kind |-> "image", h |-> 1, w |-> 1, ch |-> 1, px |-> [p \in {<<0, 0>>} |-> <<v>>]] :
        v \in {0, 255} }

\* tolerances a BackgroundRemover is constructed with
Tolerances == {0, 10, COLOR_TOLERANCE}

\* color_name arguments: the four known names, other spellings, an unknown
\* name and None
ColorNames == {None, "white", "green", "blue", "black", "WHITE", "Blue", "red"}

\* custom_color arguments (RGB); NoColor stands for None
CustomColors == {NoColor, <<140, 130, 120>>, <<250, 250, 250>>}

-----------------------------------------------------------------------------
(* Colour masking: one BackgroundRemover, one image, any number of calls   *)

IdleColor ==
    /\ image = NoImage
    /\ tolerance = COLOR_TOLERANCE
    /\ maskCall = NoCall
    /\ bgra = NoImage
    /\ detected = NoColor
    /\ repass = NoImage

IdleWatermark ==
    /\ wmImage = NoImage
    /\ wmCall = NoCall
    /\ wmResult = NoImage

NoEnv == [kind |-> "none"]

IdleAI ==
    /\ env = NoEnv
    /\ aiCall = NoCall
    /\ aiCalls = 0
    /\ modelLoads = 0

NoListing == [exists |-> FALSE, files |-> <<>>]

IdleDriver ==
    /\ listing = NoListing
    /\ run = NoRun
    /\ mainCall = NoCall
    /\ imageCall = NoCall

InitColor ==
    /\ image \in Images(MaxMaskDim, MaxMaskForeign) \cup GrayImages
    /\ tolerance \in Tolerances
    /\ maskCall = NoCall
    /\ bgra = NoImage
    /\ detected = NoColor
    /\ repass = NoImage
    /\ IdleWatermark
    /\ IdleAI
    /\ IdleDriver

\* remover.remove_color_background(image, color_name, custom_color)
RemoveColorBackgroundCall ==
    \E color_name \in ColorNames, custom_color \in CustomColors :
        /\ maskCall' = [kind |-> "call", color_name |-> color_name, custom_color |-> custom_color]
        /\ bgra' = RemoveColorBackground(image, color_name, custom_color, tolerance)
        /\ UNCHANGED <<image, tolerance, detected, repass, wmVars, aiVars, driverVars>>

NextColor == RemoveColorBackgroundCall

SpecColor == InitColor /\ [][NextColor]_vars

-----------------------------------------------------------------------------
(* Masking twice: the output of one call is masked again, same arguments   *)

\* the first remove_color_background call on the image
FirstPassCall ==
    /\ maskCall = NoCall
    /\ RemoveColorBackgroundCall

\* remover.remove_color_background(bgra, color_name, custom_color) with the
\* arguments of the first call
SecondPassCall ==
    /\ bgra # NoImage
    /\ repass = NoImage
    /\ repass' = RemoveColorBackground(bgra, maskCall.color_name, maskCall.custom_color, tolerance)
    /\ UNCHANGED <<image, tolerance, maskCall, bgra, detected, wmVars, aiVars, driverVars>>

NextRepass == FirstPassCall \/ SecondPassCall

SpecRepass == InitColor /\ [][NextRepass]_vars

-----------------------------------------------------------------------------
(* Edge refinement: one BGRA image, one refine_edges call                  *)

\* opacities around the threshold and at both ends
AlphaValues == {0, 128, 129, 255}

\* BGRA images of at most maxDim x maxDim, one colour, with at most
\* maxForeign pixels of a second opacity
AlphaImages(maxDim, maxForeign) ==
    UNION { UNION { { [kind |-> "image", h |-> h, w |-> w, ch |-> 4,
                       px |-> [p \in (0 .. h - 1) \X (0 .. w - 1) |->
                                 MidGray \o <<IF p \in foreign THEN other ELSE base>>]] :
                        foreign \in {f \in SUBSET ((0 .. h - 1) \X (0 .. w - 1)) :
                                        Cardinality(f) <= maxForeign} } :
                      base \in AlphaValues, other \in AlphaValues } :
            h \in 1 .. maxDim, w \in 1 .. maxDim }

InitRefine ==
    /\ image \in AlphaImages(MaxRefineDim, MaxRefineForeign)
    /\ tolerance = COLOR_TOLERANCE
    /\ maskCall = NoCall
    /\ bgra = NoImage
    /\ detected = NoColor
    /\ repass = NoImage
    /\ IdleWatermark
    /\ IdleAI
    /\ IdleDriver

\* remover.refine_edges(image_bgra), in a build that rounds halves either way
RefineEdgesCall ==
    /\ maskCall = NoCall
    /\ \E rounding \in {"half_up", "half_even"} :
        /\ maskCall' = [kind |-> "refine", rounding |-> rounding]
        /\ bgra' = RefineEdges(image, rounding)
    /\ UNCHANGED <<image, tolerance, detected, repass, wmVars, aiVars, driverVars>>

NextRefine == RefineEdgesCall

SpecRefine == InitRefine /\ [][NextRefine]_vars

-----------------------------------------------------------------------------
(* Background detection on its own                                         *)

InitDetect ==
    /\ image \in Images(MaxDetectDim, MaxDetectForeign)
    /\ tolerance = COLOR_TOLERANCE
    /\ maskCall = NoCall
    /\ bgra = NoImage
    /\ detected = NoColor
    /\ repass = NoImage
    /\ IdleWatermark
    /\ IdleAI
    /\ IdleDriver

\* remover._detect_background_color(image)
DetectCall ==
    /\ detected = NoColor
    /\ repass = NoImage
    /\ detected' = DetectBackgroundColor(image)
    /\ UNCHANGED <<image, tolerance, maskCall, bgra, repass, wmVars, aiVars, driverVars>>

NextDetect == DetectCall

SpecDetect == InitDetect /\ [][NextDetect]_vars

-----------------------------------------------------------------------------
(* Inpainting: one image, one inpaint_watermark call                       *)

\* an unprocessed h x w image
FreshImage(h, w) == [kind |-> "image", h |-> h, w |-> w, painted |-> {}]

\* w, h of the regions passed in
RegionSizes == {<<1, 1>>, <<2, 1>>}

\* the regions inside an image: what detect_watermark_region can return
RegionsIn(img) ==
    { [x |-> x, y |-> y, w |-> s[1], h |-> s[2]] :
        x \in 0 .. img.w - 1, y \in 0 .. img.h - 1, s \in RegionSizes }

RegionLists(img) ==
    UNION { [1 .. n -> RegionsIn(img)] : n \in 0 .. MaxRegions }

InitInpaint ==
    /\ IdleColor
    /\ IdleAI
    /\ IdleDriver
    /\ wmImage \in { FreshImage(h, w) : h \in 1 .. MaxInpaintH, w \in 1 .. MaxInpaintW }
    /\ wmCall = NoCall
    /\ wmResult = NoImage

\* remover.inpaint_watermark(image, regions)
InpaintCall ==
    /\ wmCall = NoCall
    /\ \E regions \in RegionLists(wmImage) :
        LET r == InpaintWatermark(wmImage, regions)
        IN  /\ wmCall' = [kind |-> "inpaint", regions |-> regions,
                          rects |-> r.rects, inpainted |-> r.inpainted]
            /\ wmResult' = r.result
            /\ UNCHANGED <<wmImage, colorVars, aiVars, driverVars>>

NextInpaint == InpaintCall

SpecInpaint == InitInpaint /\ [][NextInpaint]_vars

-----------------------------------------------------------------------------
(* Cropping and smart_remove: one image, one call                          *)

ExampleHeight == 1000

CropWidths == {1, 3, 100}

\* height_ratio arguments, in percent
Percents == {0, 1, AGGRESSIVE_PERCENT, DEFAULT_PERCENT, 30, 50, 90, 100}

\* bounding boxes OpenCV may report inside a roi of rw x rh: the whole roi,
\* one pixel, the smallest text-like box, a box too tall to be text-like
CandidateBoxes(rw, rh) ==
    { b \in { [x |-> 0, y |-> 0, w |-> rw, h |-> rh],
              [x |-> 0, y |-> 0, w |-> 1, h |-> 1],
              [x |-> rw - 21, y |-> rh - 6, w |-> 21, h |-> 6],
              [x |-> 0, y |-> 0, w |-> 21, h |-> 11] } :
        b.x >= 0 /\ b.y >= 0 /\ b.x + b.w <= rw /\ b.y + b.h <= rh }

\* what OpenCV can yield on one band: on an empty roi an error or nothing,
\* otherwise at most one contour
BandOutcomes(img, band) ==
    IF RoiW(img, band) = 0 \/ RoiH(img, band) = 0
    THEN { [error |-> TRUE, boxes |-> <<>>], [error |-> FALSE, boxes |-> <<>>] }
    ELSE { [error |-> FALSE, boxes |-> <<>>] }
            \cup { [error |-> FALSE, boxes |-> <<b>>] :
                      b \in CandidateBoxes(RoiW(img, band), RoiH(img, band)) }

CvOutcomes(img) ==
    { <<a, b, c>> : a \in BandOutcomes(img, RegionsToCheck(img)[1]),
                    b \in BandOutcomes(img, RegionsToCheck(img)[2]),
                    c \in BandOutcomes(img, RegionsToCheck(img)[3]) }

InitCrop ==
    /\ IdleColor
    /\ IdleAI
    /\ IdleDriver
    /\ wmImage \in { FreshImage(h, w) : h \in (1 .. MaxCropHeight) \cup {ExampleHeight},
                                         w \in CropWidths }
    /\ wmCall = NoCall
    /\ wmResult = NoImage

\* remover.remove_bottom_region(image, height_ratio=0.pp)
RemoveBottomRegionCall ==
    /\ wmCall = NoCall
    /\ \E percent \in Percents :
        /\ wmCall' = [kind |-> "crop", percent |-> percent]
        /\ wmResult' = RemoveBottomRegion(wmImage, FloatOfPercent(percent))
        /\ UNCHANGED <<wmImage, colorVars, aiVars, driverVars>>

\* remover.smart_remove(image, aggressive)
SmartRemoveCall ==
    /\ wmCall = NoCall
    /\ \E aggressive \in BOOLEAN, cv \in CvOutcomes(wmImage) :
        /\ wmCall' = [kind |-> "smart", aggressive |-> aggressive,
                      regions |-> DetectWatermarkRegion(wmImage, cv).regions]
        /\ wmResult' = SmartRemove(wmImage, aggressive, cv)
        /\ UNCHANGED <<wmImage, colorVars, aiVars, driverVars>>

NextCrop == RemoveBottomRegionCall \/ SmartRemoveCall

SpecCrop == InitCrop /\ [][NextCrop]_vars

-----------------------------------------------------------------------------
(* Watermark detection: one image, one detect_watermark_region call        *)

\* image widths around the smallest whose bands can hold a text-like box
BandWidths == {1, 3, 68, 69, 90, 100}

InitBands ==
    /\ IdleColor
    /\ IdleAI
    /\ IdleDriver
    /\ wmImage \in { FreshImage(h, w) : h \in 1 .. MaxCropHeight, w \in BandWidths }
    /\ wmCall = NoCall
    /\ wmResult = NoImage

\* remover.detect_watermark_region(image)
DetectWatermarkRegionCall ==
    /\ wmCall = NoCall
    /\ \E cv \in CvOutcomes(wmImage) :
        LET found == DetectWatermarkRegion(wmImage, cv)
            bands == RegionsToCheck(wmImage)
        IN  wmCall' = [kind |-> "detect", error |-> found.error, regions |-> found.regions,
                       byBand |-> IF found.error THEN <<>>
                                  ELSE [i \in 1 .. 3 |-> KeptBoxes(bands[i], cv[i].boxes)]]
    /\ UNCHANGED <<wmImage, wmResult, colorVars, aiVars, driverVars>>

NextBands == DetectWatermarkRegionCall

SpecBands == InitBands /\ [][NextBands]_vars

-----------------------------------------------------------------------------
(* AI background removal: one process, one image, a few remove_with_ai     *)
(* calls                                                                   *)

\* what can be installed and configured in the process, and whether the
\* models run once loaded
Environments ==
    [kind : {"env"}, torch : BOOLEAN, torchvision : BOOLEAN, transformers : BOOLEAN,
     rembg : BOOLEAN, token : {"valid", "absent", "invalid"},
     inference_ok : BOOLEAN, rembg_ok : BOOLEAN]

InitAI ==
    /\ image \in Images(1, 0)
    /\ tolerance = COLOR_TOLERANCE
    /\ maskCall = NoCall
    /\ bgra = NoImage
    /\ detected = NoColor
    /\ repass = NoImage
    /\ IdleWatermark
    /\ env \in Environments
    /\ aiCall = NoCall
    /\ aiCalls = 0
    /\ modelLoads = 0
    /\ IdleDriver

\* remover.remove_with_ai(image, method)
RemoveWithAICall ==
    /\ aiCalls < MaxAICalls
    /\ \E method \in {"rembg", "rmbg"} :
        LET r == RemoveWithAI(env, image, tolerance, method)
        IN  /\ aiCall' = [kind |-> "call", method |-> method, outcome |-> r.outcome,
                          log |-> r.log, attempts |-> r.attempts]
            /\ aiCalls' = aiCalls + 1
            /\ modelLoads' = modelLoads + r.loads
            /\ UNCHANGED <<env, colorVars, wmVars, driverVars>>

NextAI == RemoveWithAICall

SpecAI == InitAI /\ [][NextAI]_vars

-----------------------------------------------------------------------------
(* Directory batches: process_directory called on a directory of files     *)

ImageFaults ==
    {"none", "undecodable", "watermark_raises", "background_raises", "write_refused",
     "write_raises"}

\* the files a directory can hold: three images at its top, one in a
\* subdirectory whose output directory may be impossible to create, and a
\* file that is not an image
FilePool ==
    [dir : {""}, stem : {"a"}, suffix : {".jpg", ".png"}, fault : ImageFaults]
    \cup [dir : {""}, stem : {"b"}, suffix : {".JPG"}, fault : ImageFaults]
    \cup [dir : {"sub"}, stem : {"a"}, suffix : {".jpg"},
          fault : ImageFaults \cup {"mkdir_raises"}]
    \cup [dir : {""}, stem : {"notes"}, suffix : {".txt"}, fault : {"none"}]

SameName(f, g) == f.dir = g.dir /\ f.stem = g.stem /\ f.suffix = g.suffix

\* directory listings of at most maxFiles files, in any order, no name twice
Listings(maxFiles) ==
    {l \in UNION {[1 .. n -> FilePool] : n \in 0 .. maxFiles} :
        \A i, j \in 1 .. Len(l) : i # j => ~SameName(l[i], l[j])}

BatchOptions ==
    [remove_watermark : BOOLEAN, remove_background : BOOLEAN, bg_color : {None},
     aggressive : {FALSE}, recursive : BOOLEAN]

InitBatch ==
    /\ IdleColor
    /\ IdleWatermark
    /\ IdleAI
    /\ listing \in {NoListing} \cup [exists : {TRUE}, files : Listings(MaxFiles)]
    /\ run = NoRun
    /\ mainCall = NoCall
    /\ imageCall = NoCall

\* processor.process_directory(input_dir, ...) is called
ProcessDirectoryCall ==
    /\ run.state = "idle"
    /\ \E o \in BatchOptions : run' = StartDirectory(listing, o)
    /\ UNCHANGED <<listing, mainCall, imageCall, colorVars, wmVars, aiVars>>

\* the loop processes the next file
ProcessDirectoryStep ==
    /\ run.state = "running"
    /\ run.cursor <= Len(run.files)
    /\ run' = LoopBody(run, run.files[run.cursor])
    /\ UNCHANGED <<listing, mainCall, imageCall, colorVars, wmVars, aiVars>>

\* the loop is over and the counts are returned
ProcessDirectoryReturn ==
    /\ run.state = "running"
    /\ run.cursor > Len(run.files)
    /\ run' = ReturnDirectory(run)
    /\ UNCHANGED <<listing, mainCall, imageCall, colorVars, wmVars, aiVars>>

NextBatch == ProcessDirectoryCall \/ ProcessDirectoryStep \/ ProcessDirectoryReturn

SpecBatch == InitBatch /\ [][NextBatch]_vars

-----------------------------------------------------------------------------
(* The command line: main run once on a file, a directory or nothing       *)

Arguments ==
    [input : {"missing", "file", "dir"},
     output : {None},
     watermark : BOOLEAN,
     background : {None, "white", "WHITE", "auto", "red"},
     aggressive : BOOLEAN,
     recursive : BOOLEAN,
     use_ai : BOOLEAN,
     ai_model : {"rembg", "rmbg"}]

InitMain ==
    /\ IdleColor
    /\ IdleWatermark
    /\ IdleAI
    /\ listing \in [exists : {TRUE}, files : Listings(1) \ {<<>>}]
    /\ run = NoRun
    /\ mainCall = NoCall
    /\ imageCall = NoCall

\* python main.py ...
MainCall ==
    /\ mainCall = NoCall
    /\ \E a \in Arguments :
        mainCall' = [kind |-> "call", args |-> a, outcome |-> Main(a, listing)]
    /\ UNCHANGED <<listing, run, imageCall, colorVars, wmVars, aiVars>>

NextMain == MainCall

SpecMain == InitMain /\ [][NextMain]_vars

-----------------------------------------------------------------------------
(* process_image called directly on one file                               *)

\* output paths a caller may ask for
OutputPaths == [dir : {""}, stem : {"out"}, suffix : {".jpg", ".png"}]

InitImage ==
    /\ IdleColor
    /\ IdleWatermark
    /\ IdleAI
    /\ listing \in [exists : {TRUE},
                    files : {l \in Listings(1) : l # <<>> /\ l[1].fault \in ImageFaults
                                                  /\ Lower(l[1].suffix) \in IMAGE_EXTENSIONS}]
    /\ run = NoRun
    /\ mainCall = NoCall
    /\ imageCall = NoCall

\* processor.process_image(input_path, output_path, ...)
ProcessImageCall ==
    /\ imageCall = NoCall
    /\ \E output_path \in OutputPaths, remove_watermark \in BOOLEAN, remove_background \in BOOLEAN :
        imageCall' = [kind |-> "call", remove_watermark |-> remove_watermark,
                      remove_background |-> remove_background,
                      outcome |-> ProcessImage(listing.files[1], output_path, remove_watermark,
                                               remove_background, None, FALSE)]
    /\ UNCHANGED <<listing, run, mainCall, colorVars, wmVars, aiVars>>

NextImage == ProcessImageCall

SpecImage == InitImage /\ [][NextImage]_vars

-----------------------------------------------------------------------------
(* Claims about colour masking and detection                               *)

Abs(n) == IF n < 0 THEN -n ELSE n

\* the target a call asks for (RGB), when it names one
NamesTarget(call) ==
    \/ call.custom_color # NoColor
    \/ call.color_name # None /\ Lower(call.color_name) \in DOMAIN BACKGROUND_COLORS

RequestedTarget(call) ==
    IF call.custom_color # NoColor THEN call.custom_color
    ELSE BACKGROUND_COLORS[Lower(call.color_name)]

\* every channel of the pixel is within tol of the same channel of the target
WithinTolerance(pixel, target_rgb, tol) ==
    \A c \in 1 .. 3 : Abs(pixel[c] - Reversed(target_rgb)[c]) <= tol

\* the pixels a returned image marks as background
Background(result) == {p \in Positions(result) : result.px[p][4] = 0}

\* C1: after remove_color_background on a 3-channel image with a named or
\* custom target, a pixel has alpha 0 exactly when each of its channels is
\* within the tolerance of the target's, and alpha 255 otherwise (the bounds
\* saturate at 0 and 255 instead of wrapping).
C1_AlphaIsSaturatingDistance ==
    (maskCall.kind = "call" /\ NamesTarget(maskCall) /\ image.ch = 3) =>
        \A p \in Positions(image) :
            bgra.px[p][4] =
                IF WithinTolerance(image.px[p], RequestedTarget(maskCall), tolerance)
                THEN 0 ELSE 255

\* a call whose bounds do not wrap and that finds background: the masking
\* itself is exercised
C1_Witness ==
    /\ maskCall.kind = "call" /\ NamesTarget(maskCall) /\ image.ch = 3
    /\ Background(bgra) # {}
    /\ Background(bgra) # Positions(image)

\* C2: the background found with a smaller tolerance is a subset of the
\* background found with the tolerance of this call, same image and target.
C2_ToleranceMonotone ==
    maskCall.kind = "call" =>
        \A t1 \in Tolerances :
            t1 < tolerance =>
                Background(RemoveColorBackground(image, maskCall.color_name,
                                                 maskCall.custom_color, t1))
                    \subseteq Background(bgra)

\* two tolerances are compared on an image where the smaller one finds
\* background
C2_Witness ==
    /\ maskCall.kind = "call"
    /\ \E t1 \in Tolerances :
          /\ t1 < tolerance
          /\ Background(RemoveColorBackground(image, maskCall.color_name,
                                              maskCall.custom_color, t1)) # {}

\* the border pixels, each once
BorderPositions(img) ==
    {p \in Positions(img) : p[1] \in {0, img.h - 1} \/ p[2] \in {0, img.w - 1}}

\* v is the value of channel c in a strict majority of the border pixels
IsBorderMajority(img, c, v) ==
    2 * Cardinality({p \in BorderPositions(img) : img.px[p][c] = v})
        > Cardinality(BorderPositions(img))

HasBorderMajority(img) ==
    \A c \in 1 .. 3 : \E p \in BorderPositions(img) : IsBorderMajority(img, c, img.px[p][c])

BorderMajorityColor(img) ==
    [c \in 1 .. 3 |->
        CHOOSE v \in {img.px[p][c] : p \in BorderPositions(img)} : IsBorderMajority(img, c, v)]

\* C3: when one colour holds a strict majority of the border pixels in every
\* channel, _detect_background_color returns exactly that colour.
C3_DetectsBorderMajority ==
    (detected # NoColor /\ HasBorderMajority(image)) =>
        detected = BorderMajorityColor(image)

\* detection ran on an image whose border has a majority colour and a
\* minority of other pixels
C3_Witness ==
    /\ detected # NoColor
    /\ HasBorderMajority(image)
    /\ \E p \in BorderPositions(image) : image.px[p] # BorderMajorityColor(image)
    /\ detected = BorderMajorityColor(image)

-----------------------------------------------------------------------------
(* Claims about inpainting                                                 *)

\* C4: inpaint_watermark(image, []) returns its input pixel for pixel and
\* does not run cv2.inpaint.
C4_EmptyRegionsIsIdentity ==
    (wmCall.kind = "inpaint" /\ wmCall.regions = <<>>) =>
        /\ wmResult = wmImage
        /\ ~wmCall.inpainted

\* inpaint_watermark was called with no regions
C4_Witness ==
    /\ wmCall.kind = "inpaint"
    /\ wmCall.regions = <<>>
    /\ wmResult.h = wmImage.h /\ wmResult.w = wmImage.w

\* a region inside the image with positive size
InBounds(region, img) ==
    /\ 0 <= region.x /\ region.x < img.w
    /\ 0 <= region.y /\ region.y < img.h
    /\ region.w > 0 /\ region.h > 0

\* C5: for in-bounds regions the rectangle painted into the mask has
\* non-negative width and height and lies in [0, W) x [0, H).
C5_PaintedRectInsideImage ==
    wmCall.kind = "inpaint" =>
        \A i \in 1 .. Len(wmCall.regions) :
            InBounds(wmCall.regions[i], wmImage) =>
                LET r == wmCall.rects[i]
                IN  /\ 0 <= r.x /\ 0 <= r.w /\ r.x + r.w <= wmImage.w
                    /\ 0 <= r.y /\ 0 <= r.h /\ r.y + r.h <= wmImage.h

\* a region whose padding passes the right edge was painted, clamped to it
C5_Witness ==
    /\ wmCall.kind = "inpaint"
    /\ \E i \in 1 .. Len(wmCall.regions) :
          /\ InBounds(wmCall.regions[i], wmImage)
          /\ wmCall.regions[i].x - PADDING > 0
          /\ wmCall.regions[i].x + wmCall.regions[i].w + PADDING > wmImage.w
          /\ wmCall.rects[i].x + wmCall.rects[i].w = wmImage.w

-----------------------------------------------------------------------------
(* Claims about cropping                                                   *)

\* floor(H * (1 - r)) for the decimal ratio r = percent / 100
FloorDecimal(height, percent) == (height * (100 - percent)) \div 100

\* floor(H * (1 - r)) for r the binary64 value of the literal, exactly
FloorExact(height, percent) ==
    IntOfFloat(MulSmall(Sub(FloatOne, FloatOfPercent(percent)), height))

\* C6: remove_bottom_region returns the top floor(H * (1 - r)) rows, width
\* and kept pixels unchanged (r read as the decimal or as the float passed);
\* H = 1000 with r = 0.15 gives 850 rows; smart_remove crops with r = 0.12
\* when aggressive, detection or not, and keeps the height otherwise.
C6_CropIsFloor ==
    /\ wmCall.kind = "crop" =>
          /\ wmResult.h \in {FloorDecimal(wmImage.h, wmCall.percent),
                             FloorExact(wmImage.h, wmCall.percent)}
          /\ wmResult.w = wmImage.w
          /\ wmResult.painted = {}
    /\ (wmCall.kind = "crop" /\ wmCall.percent = DEFAULT_PERCENT /\ wmImage.h = ExampleHeight) =>
          wmResult.h = 850
    /\ (wmCall.kind = "smart" /\ wmResult.kind = "image") =>
          wmResult.h = IF wmCall.aggressive
                       THEN FloorDecimal(wmImage.h, AGGRESSIVE_PERCENT)
                       ELSE wmImage.h

\* the documented example ran, and an aggressive smart_remove cropped an
\* image in which a region had been detected
C6_Witness ==
    \/ /\ wmCall.kind = "crop" /\ wmCall.percent = DEFAULT_PERCENT
       /\ wmImage.h = ExampleHeight /\ wmResult.h = 850
    \/ /\ wmCall.kind = "smart" /\ wmCall.aggressive /\ wmCall.regions # <<>>
       /\ wmResult.kind = "image" /\ wmResult.h < wmImage.h

-----------------------------------------------------------------------------
(* Claims about the AI fallback chain                                      *)

\* the high-accuracy model can run: its three packages are installed and the
\* access token is accepted
RmbgDependenciesPresent(e) == e.torch /\ e.torchvision /\ e.transformers
RmbgCapable(e) == RmbgDependenciesPresent(e) /\ e.token = "valid"

InLog(msg, log) == \E i \in 1 .. Len(log) : log[i] = msg

\* C7: with the high-accuracy dependency absent and rembg present, a call
\* with method "rmbg" returns what method "rembg" returns on the same
\* input and prints that it fell back to rembg.
C7_FallbackEqualsRembg ==
    (aiCall.kind = "call" /\ aiCall.method = "rmbg"
        /\ ~RmbgDependenciesPresent(env) /\ env.rembg) =>
        /\ aiCall.outcome = RemoveWithAI(env, image, tolerance, "rembg").outcome
        /\ InLog("Falling back to rembg...", aiCall.log)

\* the fallback happened: torch is missing, rembg answered
C7_Witness ==
    /\ aiCall.kind = "call" /\ aiCall.method = "rmbg"
    /\ ~env.torch /\ env.rembg /\ env.rembg_ok
    /\ aiCall.outcome.kind = "image" /\ aiCall.outcome.source = "rembg"
    /\ InLog("Falling back to rembg...", aiCall.log)

\* C8: when the high-accuracy model cannot run for want of a package or of
\* a valid token, a call with method "rmbg" raises nothing for that reason:
\* it goes on to rembg and, with rembg not installed, to colour masking.
C8_UnavailableFallsBack ==
    (aiCall.kind = "call" /\ aiCall.method = "rmbg" /\ ~RmbgCapable(env)) =>
        /\ aiCall.outcome = RemoveWithAI(env, image, tolerance, "rembg").outcome
        /\ (env.rembg /\ env.rembg_ok) => aiCall.outcome.kind = "image"
        /\ ~env.rembg => aiCall.outcome.kind = "image"

\* the chain ran to its end: no torch, no rembg, colour masking answered
C8_Witness ==
    /\ aiCall.kind = "call" /\ aiCall.method = "rmbg"
    /\ ~env.torch /\ ~env.rembg
    /\ aiCall.outcome.kind = "image" /\ aiCall.outcome.source = "color"

-----------------------------------------------------------------------------
(* Claims about the driver                                                 *)

InSeq(x, q) == \E i \in 1 .. Len(q) : q[i] = x

\* C9: main hands the requested strategy to process_image and
\* process_directory, which accept it; with use_ai and a background the
\* alpha of every image comes from remove_with_ai and not from colour
\* masking, without use_ai it comes from remove_color_background followed by
\* refine_edges, so exactly one of the two strategies runs per image.
C9_StrategyFollowsConfiguration ==
    (mainCall.kind = "call" /\ PassesValidation(mainCall.args)
        /\ mainCall.args.background # None) =>
        /\ mainCall.outcome.kind = "exit"
        /\ \A i \in 1 .. Len(mainCall.outcome.images) :
            LET stages == mainCall.outcome.images[i].stages
            IN  InSeq("imwrite", stages) =>
                    IF mainCall.args.use_ai
                    THEN InSeq("remove_with_ai", stages)
                            /\ ~InSeq("remove_color_background", stages)
                    ELSE InSeq("remove_color_background", stages)
                            /\ InSeq("refine_edges", stages)
                            /\ ~InSeq("remove_with_ai", stages)

\* main was asked for the high-accuracy model on a directory and got as far
\* as the call of process_directory
C9_Witness ==
    /\ mainCall.kind = "call" /\ PassesValidation(mainCall.args)
    /\ mainCall.args.input = "dir" /\ mainCall.args.background = "white"
    /\ mainCall.args.use_ai /\ mainCall.args.ai_model = "rmbg"
    /\ mainCall.outcome.kind = "raised"

\* an image whose processing failed: it could not be decoded, a
\* stage that ran raised, or the output could not be written
ProcessingFailed(f, o) ==
    \/ f.fault = "undecodable"
    \/ o.remove_watermark /\ f.fault = "watermark_raises"
    \/ o.remove_background /\ f.fault = "background_raises"
    \/ f.fault \in {"write_refused", "write_raises", "mkdir_raises"}

\* C10: a failure on one image does not stop the batch: process_directory
\* attempts every image file found exactly once, in sequence, and returns
\* counts with successful + failed = files found and failed = the number
\* of images whose processing failed.
C10_BatchCountsEveryImage ==
    /\ run.state # "raised"
    /\ run.state = "returned" =>
        LET found == run.files
        IN  /\ Len(run.attempted) = Len(found)
            /\ \A i \in 1 .. Len(found) : run.attempted[i].input = found[i]
            /\ run.successful + run.failed = Len(found)
            /\ run.failed =
                 Cardinality({i \in 1 .. Len(found) : ProcessingFailed(found[i], run.opts)})

\* a batch of two images went on after the first could not be decoded
C10_Witness ==
    /\ run.state = "returned"
    /\ Len(run.files) = 2
    /\ run.files[1].fault = "undecodable" /\ run.files[2].fault = "none"
    /\ run.successful = 1 /\ run.failed = 1

\* decoding, a stage that ran, or the write failed in a process_image call
StepFailed(f, remove_watermark, remove_background) ==
    \/ f.fault = "undecodable"
    \/ remove_watermark /\ f.fault = "watermark_raises"
    \/ remove_background /\ f.fault = "background_raises"
    \/ f.fault \in {"write_refused", "write_raises"}

\* C11: process_image returns True only when the output has been written;
\* when decoding, a stage or the write fails it returns False and leaves no
\* output file of its own at output_path.
C11_TrueOnlyWhenWritten ==
    imageCall.kind = "call" =>
        LET p == imageCall.outcome
        IN  /\ p.returned => p.written
            /\ StepFailed(p.input, imageCall.remove_watermark, imageCall.remove_background) =>
                    ~p.returned /\ ~p.written

\* one call wrote its output and returned True
C11_Witness ==
    /\ imageCall.kind = "call"
    /\ imageCall.outcome.input.fault = "none"
    /\ imageCall.outcome.returned /\ imageCall.outcome.written

\* the image of a call had its background removed and was written
WroteAlpha(p) == p.written /\ InSeq("remove_color_background", p.stages)

\* C12: whenever background removal was performed, the file written has a
\* .png extension, whatever path was asked for, through process_image called
\* directly, through process_directory and through main on a single file.
C12_AlphaIsWrittenAsPng ==
    /\ (imageCall.kind = "call" /\ WroteAlpha(imageCall.outcome)) =>
            Lower(imageCall.outcome.output.suffix) = ".png"
    /\ run.state \in {"running", "returned"} =>
            \A i \in 1 .. Len(run.attempted) :
                WroteAlpha(run.attempted[i]) => Lower(run.attempted[i].output.suffix) = ".png"
    /\ (mainCall.kind = "call" /\ mainCall.outcome.kind = "exit") =>
            \A i \in 1 .. Len(mainCall.outcome.images) :
                WroteAlpha(mainCall.outcome.images[i]) =>
                    Lower(mainCall.outcome.images[i].output.suffix) = ".png"

\* a direct call removed the background and wrote to a .png path
C12_Witness ==
    /\ imageCall.kind = "call" /\ imageCall.remove_background
    /\ WroteAlpha(imageCall.outcome)
    /\ imageCall.outcome.output.suffix = ".png"

-----------------------------------------------------------------------------
(* Claims about the model's lifetime and the order of strategies           *)

\* C13: over any sequence of remove_with_ai(method="rmbg") calls in one
\* process the high-accuracy model is loaded at most once; later calls reuse
\* the loaded model.
C13_ModelLoadedOnce == modelLoads <= 1

\* a call with method "rmbg" loaded the model and returned its image
C13_Witness ==
    /\ aiCall.kind = "call" /\ aiCall.method = "rmbg"
    /\ aiCall.outcome.kind = "image" /\ aiCall.outcome.source = "rmbg"
    /\ modelLoads = 1

-----------------------------------------------------------------------------
(* Claims about repeated and auto-detected masking                         *)

\* C14: masking the output of remove_color_background again with the same
\* target and tolerance succeeds and makes the same pixels transparent as
\* the first pass, no more.
C14_SecondPassChangesNothing ==
    repass # NoImage =>
        /\ repass.kind = "image"
        /\ Background(repass) = Background(bgra)

\* a second pass ran over an image in which the first had found background
C14_Witness ==
    /\ repass # NoImage
    /\ Background(bgra) # {}

\* every channel of the pixel is within tol of the same channel of a target
\* given in the image's own channel order
WithinToleranceOf(pixel, target, tol) ==
    \A c \in 1 .. 3 : Abs(pixel[c] - target[c]) <= tol

\* C15: with no custom colour and no known colour name the target is the
\* per-channel border median in the image's own channel order: a pixel gets
\* alpha 0 exactly when each channel is within the tolerance of the same
\* channel of the border median, also when the first and third channel of
\* the border colour differ.
C15_AutoTargetKeepsChannelOrder ==
    (maskCall.kind = "call" /\ ~NamesTarget(maskCall) /\ image.ch = 3) =>
        \A p \in Positions(image) :
            bgra.px[p][4] =
                IF WithinToleranceOf(image.px[p], DetectBackgroundColor(image), tolerance)
                THEN 0 ELSE 255

\* an auto-detected call found background in an image whose border median
\* has different first and third channels
C15_Witness ==
    /\ maskCall.kind = "call" /\ ~NamesTarget(maskCall) /\ image.ch = 3
    /\ DetectBackgroundColor(image)[1] # DetectBackgroundColor(image)[3]
    /\ Background(bgra) # {}

-----------------------------------------------------------------------------
(* Claims about the inpainting mask and watermark detection                *)

\* [x-5, x+w+5) x [y-5, y+h+5) cut to the image, as cells <<row, column>>
PaddedCells(region, img) ==
    (Max(0, region.y - PADDING) .. Min(img.h, region.y + region.h + PADDING) - 1)
        \X (Max(0, region.x - PADDING) .. Min(img.w, region.x + region.w + PADDING) - 1)

\* C16: for a non-empty list of in-bounds regions the mask cells set to 255
\* are exactly the union of the regions' rectangles grown by 5 pixels on
\* every side and cut to the image; a region near the left or top edge is
\* not widened more than 5 pixels past its right or bottom side.
C16_MaskIsPaddedUnion ==
    (wmCall.kind = "inpaint" /\ wmCall.regions # <<>>
        /\ \A i \in 1 .. Len(wmCall.regions) : InBounds(wmCall.regions[i], wmImage)) =>
        MaskCells(wmResult.painted) =
            UNION {PaddedCells(wmCall.regions[i], wmImage) : i \in 1 .. Len(wmCall.regions)}

\* a region at least 5 pixels from the left edge was painted with its
\* padding cut at the right edge
C16_Witness ==
    /\ wmCall.kind = "inpaint" /\ Len(wmCall.regions) = 1
    /\ wmCall.regions[1].x >= PADDING
    /\ MaskCells(wmResult.painted) = PaddedCells(wmCall.regions[1], wmImage)
    /\ MaskCells(wmResult.painted) # {}

-----------------------------------------------------------------------------
(* Claims about edge refinement                                            *)

\* every opacity of the image is v
UniformAlpha(img, v) == \A p \in Positions(img) : img.px[p][4] = v

\* what holds of refine_edges whatever the threshold rule: opacities are 0
\* or 255, colours are kept, uniformly opaque or transparent masks are kept
RefineKeepsShape ==
    /\ \A p \in Positions(image) :
          /\ bgra.px[p][4] \in {0, 255}
          /\ \A c \in 1 .. 3 : bgra.px[p][c] = image.px[p][c]
    /\ (UniformAlpha(image, 0) \/ UniformAlpha(image, 255)) => bgra = image

\* C17 as stated: after refine_edges every opacity is 0 or 255, colours are
\* unchanged, and the new opacity is 255 exactly when the 1-2-1 by 1-2-1
\* weighted average (over 16) of the old opacities around the pixel is
\* greater than 128; uniform masks come back unchanged.
C17_OpaqueIffAverageAbove128 ==
    maskCall.kind = "refine" =>
        /\ RefineKeepsShape
        /\ \A p \in Positions(image) :
              bgra.px[p][4] = 255 <=> BlurSum16(image, p) > 16 * 128

\* C17 amended: the average is rounded to an integer before it is compared
\* with 128, so the new opacity is 255 when the average is above 128.5 and
\* 0 when it is below 128.5 (at exactly 128.5 it is 255 where halves round
\* up and 0 where they round to even); the rest is as stated.
C17_OpaqueIffRoundedAverageAbove128 ==
    maskCall.kind = "refine" =>
        /\ RefineKeepsShape
        /\ \A p \in Positions(image) :
              /\ 2 * BlurSum16(image, p) > 16 * 257 => bgra.px[p][4] = 255
              /\ 2 * BlurSum16(image, p) < 16 * 257 => bgra.px[p][4] = 0
              /\ 2 * BlurSum16(image, p) = 16 * 257 =>
                    bgra.px[p][4] = IF maskCall.rounding = "half_up" THEN 255 ELSE 0

\* a pixel whose average lies between 128 and 128.5 became transparent
C17_Witness ==
    /\ maskCall.kind = "refine"
    /\ \E p \in Positions(image) :
          /\ BlurSum16(image, p) > 16 * 128
          /\ 2 * BlurSum16(image, p) < 16 * 257
          /\ bgra.px[p][4] = 0

-----------------------------------------------------------------------------
(* Claims about watermark detection                                        *)

\* floor(0.85 * H) for the two corner bands, floor(0.9 * H) for the bottom
\* centre band
BandTop(i, height) == IF i = 3 THEN (90 * height) \div 100 ELSE (85 * height) \div 100

\* C18: every region detect_watermark_region returns has w > 20, h > 5 and
\* w > 2 * h, is in full-image coordinates, and lies inside the band it was
\* found in and so inside the image: 0 <= x, x + w <= W, floor(0.85 * H) <= y
\* (floor(0.9 * H) for the bottom centre band), y + h <= H.
C18_RegionsLieInTheirBand ==
    (wmCall.kind = "detect" /\ ~wmCall.error) =>
        /\ wmCall.regions = wmCall.byBand[1] \o wmCall.byBand[2] \o wmCall.byBand[3]
        /\ \A i \in 1 .. 3 :
            \A k \in 1 .. Len(wmCall.byBand[i]) :
                LET r == wmCall.byBand[i][k]
                    band == RegionsToCheck(wmImage)[i]
                IN  /\ r.w > 20 /\ r.h > 5 /\ r.w > 2 * r.h
                    /\ 0 <= r.x /\ r.x + r.w <= wmImage.w
                    /\ band.x1 <= r.x /\ r.x + r.w <= band.x2
                    /\ BandTop(i, wmImage.h) <= r.y /\ r.y + r.h <= wmImage.h

\* a region was returned from the bottom-right band and one from the bottom
\* centre band, both away from the image's origin
C18_Witness ==
    /\ wmCall.kind = "detect" /\ ~wmCall.error
    /\ wmCall.byBand[1] # <<>> /\ wmCall.byBand[3] # <<>>
    /\ wmCall.byBand[1][1].x > 0 /\ wmCall.byBand[1][1].y > 0

-----------------------------------------------------------------------------
(* Claims about the order of strategies                                    *)

\* the fixed order of the strategies
Chain == <<"rmbg", "rembg", "color">>

\* where a call with the given method starts in the chain
StartOf(method) == IF method = "rmbg" THEN 1 ELSE 2

\* a package the strategy needs is not installed
DependencyUnavailable(strategy, e) ==
    CASE strategy = "rmbg"  -> ~RmbgDependenciesPresent(e)
      [] strategy = "rembg" -> ~e.rembg
      [] OTHER              -> FALSE

\* the strategy's packages are installed and it fails when run
RuntimeFailure(strategy, e) ==
    CASE strategy = "rmbg"  -> RmbgDependenciesPresent(e)
                                  /\ (e.token # "valid" \/ ~e.inference_ok)
      [] strategy = "rembg" -> e.rembg /\ ~e.rembg_ok
      [] OTHER              -> FALSE

\* C19: the strategies attempted in a remove_with_ai call follow the order
\* rmbg, rembg, colour masking from the requested one on, without repeats; a
\* later one is attempted only after the one before it reported a missing
\* dependency; a runtime failure of an available model is raised to the
\* caller with nothing attempted after it.
C19_ChainOrder ==
    aiCall.kind = "call" =>
        LET a == aiCall.attempts
            s == StartOf(aiCall.method)
        IN  /\ Len(a) >= 1 /\ s + Len(a) - 1 <= Len(Chain)
            /\ \A i \in 1 .. Len(a) : a[i] = Chain[s + i - 1]
            /\ \A i \in 1 .. Len(a) - 1 : DependencyUnavailable(a[i], env)
            /\ \A i \in 1 .. Len(a) :
                  RuntimeFailure(a[i], env) => i = Len(a) /\ aiCall.outcome.kind = "raised"

\* rembg was reached from rmbg, failed at run time, and the failure was raised
C19_Witness ==
    /\ aiCall.kind = "call" /\ aiCall.method = "rmbg"
    /\ aiCall.attempts = <<"rmbg", "rembg">>
    /\ RuntimeFailure("rembg", env)
    /\ aiCall.outcome.kind = "raised"

-----------------------------------------------------------------------------
(* Claims about the outputs of a batch                                     *)

\* C20: within one process_directory call no two input files are written
\* to the same output path, so the number of output files equals the
\* returned successful count, also when background removal rewrites the
\* extensions to .png.  (Batches in which a write was refused without an
\* exception are left to C10 and C11: there the count is off for another
\* reason.)
C20_OneOutputPerInput ==
    run.state \in {"running", "returned"} =>
        /\ \A i, j \in 1 .. Len(run.attempted) :
              (i # j /\ run.attempted[i].written /\ run.attempted[j].written) =>
                  run.attempted[i].output # run.attempted[j].output
        /\ (run.state = "returned"
                /\ \A i \in 1 .. Len(run.attempted) :
                      run.attempted[i].returned => run.attempted[i].written) =>
              Cardinality(run.outputs) = run.successful

\* two inputs with different stems had their backgrounds removed and were
\* written to two .png files
C20_Witness ==
    /\ run.state = "returned" /\ run.opts.remove_background
    /\ run.successful = 2 /\ Cardinality(run.outputs) = 2
    /\ \A o \in run.outputs : o.suffix = ".png"

=============================================================================
